---- MODULE Spec2Model ----
(***************************************************************************)
(* Rock-paper-scissors core of answers/rps/rps.16.cpp: the score map, the  *)
(* pairwise and batch score functions, the Player subclasses' nextMove and *)
(* the play loop.                                                          *)
(***************************************************************************)
EXTENDS Integers, Sequences, FiniteSets, TLC

\* ---------------------------------------------------------------- bounds
\* Largest num_rounds handed to play in the general specification.
MaxRounds == 3
\* Largest num_rounds handed to play when two TitForTat players meet.
MaxMirrorRounds == 5
\* Longest sequence of rounds handed directly to score / nextMove.
MaxLen == 2
\* Largest my_pos handed directly to nextMove (an unsigned char).
MaxPos == 3

\* ----------------------------------------------------------------- types
\* enum Move
Move == {"Rock", "Paper", "Scissors"}

\* struct Round: the constructor stores p1_move in p1 and p2_move in p2.
Round(p1_move, p2_move) == [p1 |-> p1_move, p2 |-> p2_move]

Rounds == [p1 : Move, p2 : Move]

\* The concrete Player classes: Random, TitForTat and PlayerWrap (a player
\* whose nextMove is an override supplied by the host interpreter).
PlayerKind == {"Random", "TitForTat", "PlayerWrap"}

\* Sequences of rounds of length at most n.
RECURSIVE HistoriesUpTo(_)
HistoriesUpTo(n) ==
    IF n = 0 THEN {<<>>}
    ELSE LET shorter == HistoriesUpTo(n - 1)
         IN  shorter \cup {Append(h, r) : h \in {s \in shorter : Len(s) = n - 1}, r \in Rounds}

\* ------------------------------------------------------------- score map
\* The table with the sign convention inverted (+1 where the first move wins).
scoreMapInverted ==
    [a \in Move |-> [b \in Move |->
        CASE a = b -> 0
          [] <<a, b>> \in {<<"Rock", "Scissors">>, <<"Scissors", "Paper">>, <<"Paper", "Rock">>} -> 1
          [] OTHER -> -1]]

\* scoreMap(): the Move -> Move -> int table, filled row by row.
scoreMap ==
    LET rock     == [m \in Move |-> CASE m = "Rock" -> 0
                                      [] m = "Paper" -> 1
                                      [] m = "Scissors" -> -1]
        paper    == [m \in Move |-> CASE m = "Rock" -> -1
                                      [] m = "Paper" -> 0
                                      [] m = "Scissors" -> 1]
        scissors == [m \in Move |-> CASE m = "Rock" -> 1
                                      [] m = "Paper" -> -1
                                      [] m = "Scissors" -> 0]
    IN  [m \in Move |-> CASE m = "Rock" -> rock
                          [] m = "Paper" -> paper
                          [] m = "Scissors" -> scissors]

\* int score(Move m1, Move m2)
score(m1, m2) == scoreMap[m1][m2]

\* The batch score inserting each score at the front of the result.
RECURSIVE scoreRoundsReversed(_)
scoreRoundsReversed(rounds) ==
    IF rounds = <<>> THEN <<>>
    ELSE scoreRoundsReversed(Tail(rounds)) \o <<score(Head(rounds).p1, Head(rounds).p2)>>

\* std::vector<int> score(const std::vector<Round>& rounds): one push_back
\* per round, in iteration order.
RECURSIVE scoreRounds(_)
scoreRounds(rounds) ==
    IF rounds = <<>> THEN <<>>
    ELSE <<score(Head(rounds).p1, Head(rounds).p2)>> \o scoreRounds(Tail(rounds))

\* ----------------------------------------------------------------- state
VARIABLES
    ndebug,      \* TRUE when the build defines NDEBUG (assert compiles to nothing)
    p1, p2,      \* play: the dynamic types of the two Player arguments
    num_rounds,  \* play: the num_rounds argument
    history,     \* play: the local std::vector<Round> history
    i,           \* play: the loop counter
    m1, m2,      \* play: the loop body's locals
    pc,          \* play: position in the function
    result,      \* play: the returned vector
    calls,       \* play: the nextMove calls made so far, arguments and outcome
    call,        \* a direct call of score / nextMove from outside: its arguments
    ret          \* the direct call's outcome: <<>> before it returns, <<v>> after

vars == <<ndebug, p1, p2, num_rounds, history, i, m1, m2, pc, result, calls, call, ret>>

playVars == <<p1, p2, num_rounds, history, i, m1, m2, pc, result, calls>>

NoMove == "NoMove"

\* --------------------------------------------------------------- players
\* randomMove(): the generator draws 1, 2 or 3 and the switch maps them to
\* Rock, Paper and Scissors; any of the three can come out.
randomMove ==
    {CASE d = 1 -> "Rock" [] d = 2 -> "Paper" [] OTHER -> "Scissors" : d \in 1..3}

\* Random::nextMove ignores both arguments.
RandomNextMove(hist, my_pos) == randomMove

\* TitForTat repeating its own last move (the selection of p1/p2 swapped).
TitForTatOwnMove(hist, my_pos) ==
    IF ~ndebug /\ ~(my_pos = 0 \/ my_pos = 1) THEN {"abort"}
    ELSE IF hist = <<>> THEN randomMove
    ELSE LET r == hist[Len(hist)]
         IN  {IF my_pos = 0 THEN r.p1 ELSE r.p2}

\* TitForTat reading the first round of the history (begin for rbegin).
TitForTatFirstRound(hist, my_pos) ==
    IF ~ndebug /\ ~(my_pos = 0 \/ my_pos = 1) THEN {"abort"}
    ELSE IF hist = <<>> THEN randomMove
    ELSE LET r == hist[1]
         IN  {IF my_pos = 0 THEN r.p2 ELSE r.p1}

\* TitForTat::nextMove. The assert aborts the process unless the build
\* defines NDEBUG; otherwise any my_pos other than 0 selects r.p1.
TitForTatNextMove(hist, my_pos) ==
    IF ~ndebug /\ ~(my_pos = 0 \/ my_pos = 1) THEN {"abort"}
    ELSE IF hist = <<>> THEN randomMove
    ELSE LET r == hist[Len(hist)]
         IN  {IF my_pos = 0 THEN r.p2 ELSE r.p1}

\* PlayerWrap::nextMove hands a copy of the history to the interpreter's
\* next_move override: it yields any Move, or raises.
PlayerWrapNextMove(hist, my_pos) == Move \cup {"raise"}

\* Virtual dispatch of Player::nextMove: the set of possible outcomes.
nextMove(kind, hist, my_pos) ==
    CASE kind = "Random"     -> RandomNextMove(hist, my_pos)
      [] kind = "TitForTat"  -> TitForTatNextMove(hist, my_pos)
      [] kind = "PlayerWrap" -> PlayerWrapNextMove(hist, my_pos)

\* ------------------------------------------------------------------ play
\* Where play goes after a nextMove call with the given outcome.
AfterCall(out, next) ==
    IF out \in Move THEN next ELSE IF out = "raise" THEN "raised" ELSE "aborted"

\* The loop condition written i <= num_rounds.
LoopTestOffByOne ==
    /\ pc = "test"
    /\ IF i <= num_rounds
       THEN /\ pc' = "ask1"
            /\ UNCHANGED result
       ELSE /\ result' = scoreRounds(history)
            /\ pc' = "done"
    /\ UNCHANGED <<ndebug, p1, p2, num_rounds, history, i, m1, m2, calls, call, ret>>

\* The loop written do ... while: the body runs once before the first test.
LoopTestDoWhile ==
    /\ pc = "test"
    /\ IF i = 0 \/ i < num_rounds
       THEN /\ pc' = "ask1"
            /\ UNCHANGED result
       ELSE /\ result' = scoreRounds(history)
            /\ pc' = "done"
    /\ UNCHANGED <<ndebug, p1, p2, num_rounds, history, i, m1, m2, calls, call, ret>>

\* for (i = 0; i < num_rounds; ...): the loop condition; when it fails,
\* return score(history).
LoopTest ==
    /\ pc = "test"
    /\ IF i < num_rounds
       THEN /\ pc' = "ask1"
            /\ UNCHANGED result
       ELSE /\ result' = scoreRounds(history)
            /\ pc' = "done"
    /\ UNCHANGED <<ndebug, p1, p2, num_rounds, history, i, m1, m2, calls, call, ret>>

\* Move m1 = p1.nextMove(history, 0);
Ask1 ==
    /\ pc = "ask1"
    /\ \E out \in nextMove(p1, history, 0) :
          /\ calls' = Append(calls, [player |-> 1, history |-> history,
                                     my_pos |-> 0, out |-> out])
          /\ m1' = IF out \in Move THEN out ELSE m1
          /\ pc' = AfterCall(out, "ask2")
    /\ UNCHANGED <<ndebug, p1, p2, num_rounds, history, i, m2, result, call, ret>>

\* The second player asked after the first player's move was recorded.
Ask2Peek ==
    /\ pc = "ask2"
    /\ LET seen == Append(history, Round(m1, m1))
       IN  \E out \in nextMove(p2, seen, 1) :
              /\ calls' = Append(calls, [player |-> 2, history |-> seen,
                                         my_pos |-> 1, out |-> out])
              /\ m2' = IF out \in Move THEN out ELSE m2
              /\ pc' = AfterCall(out, "push")
    /\ UNCHANGED <<ndebug, p1, p2, num_rounds, history, i, m1, result, call, ret>>

\* Move m2 = p2.nextMove(history, 1);
Ask2 ==
    /\ pc = "ask2"
    /\ \E out \in nextMove(p2, history, 1) :
          /\ calls' = Append(calls, [player |-> 2, history |-> history,
                                     my_pos |-> 1, out |-> out])
          /\ m2' = IF out \in Move THEN out ELSE m2
          /\ pc' = AfterCall(out, "push")
    /\ UNCHANGED <<ndebug, p1, p2, num_rounds, history, i, m1, result, call, ret>>

\* The round built with its two moves exchanged.
PushSwapped ==
    /\ pc = "push"
    /\ history' = Append(history, Round(m2, m1))
    /\ i' = i + 1
    /\ m1' = NoMove
    /\ m2' = NoMove
    /\ pc' = "test"
    /\ UNCHANGED <<ndebug, p1, p2, num_rounds, result, calls, call, ret>>

\* The round inserted at the front of the history.
PushFront ==
    /\ pc = "push"
    /\ history' = <<Round(m1, m2)>> \o history
    /\ i' = i + 1
    /\ m1' = NoMove
    /\ m2' = NoMove
    /\ pc' = "test"
    /\ UNCHANGED <<ndebug, p1, p2, num_rounds, result, calls, call, ret>>

\* history.push_back(Round(m1, m2)); then ++i, and m1, m2 leave scope.
Push ==
    /\ pc = "push"
    /\ history' = Append(history, Round(m1, m2))
    /\ i' = i + 1
    /\ m1' = NoMove
    /\ m2' = NoMove
    /\ pc' = "test"
    /\ UNCHANGED <<ndebug, p1, p2, num_rounds, result, calls, call, ret>>

\* play is entered with an empty history and i = 0.
PlayEntry(kinds1, kinds2, maxRounds) ==
    /\ ndebug \in BOOLEAN
    /\ p1 \in kinds1
    /\ p2 \in kinds2
    /\ num_rounds \in 0..maxRounds
    /\ history = <<>>
    /\ i = 0
    /\ m1 = NoMove
    /\ m2 = NoMove
    /\ pc = "test"
    /\ result = <<>>
    /\ calls = <<>>
    /\ call = [op |-> "none"]
    /\ ret = <<>>

Init == PlayEntry(PlayerKind, PlayerKind, MaxRounds)

Next == LoopTest \/ Ask1 \/ Ask2 \/ Push

Spec == Init /\ [][Next]_vars

\* Two TitForTat players matched against each other.
InitMirror == PlayEntry({"TitForTat"}, {"TitForTat"}, MaxMirrorRounds)

SpecMirror == InitMirror /\ [][Next]_vars

\* ---------------------------------------------------------- direct calls
\* The calls the module exposes besides play: score(m1, m2), score(rounds)
\* and a player's nextMove(history, my_pos).
DirectCalls ==
    [op : {"score"}, m1 : Move, m2 : Move]
      \cup [op : {"scoreRounds"}, rounds : HistoriesUpTo(MaxLen)]
      \cup [op : {"nextMove"}, kind : PlayerKind,
            history : HistoriesUpTo(MaxLen), my_pos : 0..MaxPos]

InitCalls ==
    /\ ndebug \in BOOLEAN
    /\ p1 = "Random"
    /\ p2 = "Random"
    /\ num_rounds = 0
    /\ history = <<>>
    /\ i = 0
    /\ m1 = NoMove
    /\ m2 = NoMove
    /\ pc = "idle"
    /\ result = <<>>
    /\ calls = <<>>
    /\ call \in DirectCalls
    /\ ret = <<>>

CallScore ==
    /\ call.op = "score"
    /\ ret = <<>>
    /\ ret' = <<score(call.m1, call.m2)>>
    /\ UNCHANGED <<ndebug, playVars, call>>

CallScoreRounds ==
    /\ call.op = "scoreRounds"
    /\ ret = <<>>
    /\ ret' = <<scoreRounds(call.rounds)>>
    /\ UNCHANGED <<ndebug, playVars, call>>

CallNextMove ==
    /\ call.op = "nextMove"
    /\ ret = <<>>
    /\ \E out \in nextMove(call.kind, call.history, call.my_pos) : ret' = <<out>>
    /\ UNCHANGED <<ndebug, playVars, call>>

NextCalls == CallScore \/ CallScoreRounds \/ CallNextMove

SpecCalls == InitCalls /\ [][NextCalls]_vars

\* ------------------------------------------------------------ properties
IsPrefix(s, t) == Len(s) <= Len(t) /\ SubSeq(t, 1, Len(s)) = s

\* The beats-relation of the game.
Beats == {<<"Rock", "Scissors">>, <<"Scissors", "Paper">>, <<"Paper", "Rock">>}

\* The round (0-based) in which the k-th nextMove call of a match is made.
RoundOfCall(k) == (k - 1) \div 2

\* C1: score(m1, m2) is -1 if m1 beats m2, +1 if m2 beats m1 and 0 if
\* m1 = m2, where Rock beats Scissors, Scissors beats Paper and Paper beats
\* Rock.
C1_ScoreRule ==
    (call.op = "score" /\ ret # <<>>) =>
        /\ (<<call.m1, call.m2>> \in Beats => ret[1] = -1)
        /\ (<<call.m2, call.m1>> \in Beats => ret[1] = 1)
        /\ (call.m1 = call.m2 => ret[1] = 0)
        /\ (call.m1 = "Rock" /\ call.m2 = "Scissors" => ret[1] = -1)
        /\ (call.m1 = "Scissors" /\ call.m2 = "Paper" => ret[1] = -1)
        /\ (call.m1 = "Paper" /\ call.m2 = "Rock" => ret[1] = -1)

C1_Witness ==
    /\ call.op = "score"
    /\ call.m1 = "Paper"
    /\ call.m2 = "Rock"
    /\ ret = <<-1>>

\* C2: in every round of play the first player is asked with position 0
\* and the second with position 1, both with the log of exactly the earlier
\* rounds (the second player's input does not contain the first player's
\* move of the round), and a round is appended only after both answered, as
\* Round(move of the first, move of the second).
C2_SimultaneousDecision ==
    /\ \A k \in 1..Len(calls) :
          /\ calls[k].player = IF k % 2 = 1 THEN 1 ELSE 2
          /\ calls[k].my_pos = calls[k].player - 1
          /\ Len(calls[k].history) = RoundOfCall(k)
          /\ calls[k].history = SubSeq(history, 1, RoundOfCall(k))
    /\ 2 * Len(history) <= Len(calls)
    /\ \A r \in 1..Len(history) :
          /\ calls[2 * r - 1].out \in Move
          /\ calls[2 * r].out \in Move
          /\ history[r] = Round(calls[2 * r - 1].out, calls[2 * r].out)

C2_Witness ==
    /\ pc = "push"
    /\ Len(history) = 1
    /\ Len(calls) = 4
    /\ calls[3].out # calls[4].out
    /\ calls[4].history = history

\* C3 (as stated): two TitForTat players matched for 5 rounds score 0 in
\* every round from round 1 onward, whatever the moves of round 0.
C3_MirrorTiesAfterRound0 ==
    (pc = "done" /\ p1 = "TitForTat" /\ p2 = "TitForTat" /\ num_rounds = 5) =>
        \A k \in 2..Len(result) : result[k] = 0

\* C3 (amended): two TitForTat players matched against each other swap the
\* moves of round 0 in every later round, so each round's score is the
\* negation of the previous round's; the rounds from round 1 onward are all
\* ties exactly when the two moves of round 0 are equal.
C3_MirrorAlternates ==
    (pc = "done" /\ p1 = "TitForTat" /\ p2 = "TitForTat") =>
        /\ \A k \in 2..Len(result) :
              /\ history[k] = Round(history[k - 1].p2, history[k - 1].p1)
              /\ result[k] = -result[k - 1]
              /\ result[k] = 0 <=> calls[1].out = calls[2].out

C3_Witness ==
    /\ pc = "done"
    /\ p1 = "TitForTat"
    /\ p2 = "TitForTat"
    /\ num_rounds = 5
    /\ result = <<-1, 1, -1, 1, -1>>

\* C4: for a non-empty history and my_pos 0 or 1, TitForTat::nextMove
\* returns the opponent's move of the last round: its p2 for my_pos 0, its
\* p1 for my_pos 1; for a last round (Rock, Paper) that is Paper and Rock.
C4_MirrorReturnsOpponentsLast ==
    (/\ call.op = "nextMove"
     /\ call.kind = "TitForTat"
     /\ call.history # <<>>
     /\ call.my_pos \in {0, 1}
     /\ ret # <<>>) =>
        LET last == call.history[Len(call.history)]
        IN  /\ call.my_pos = 0 => ret[1] = last.p2
            /\ call.my_pos = 1 => ret[1] = last.p1
            /\ (last = Round("Rock", "Paper") /\ call.my_pos = 0) => ret[1] = "Paper"
            /\ (last = Round("Rock", "Paper") /\ call.my_pos = 1) => ret[1] = "Rock"

C4_Witness ==
    /\ call.op = "nextMove"
    /\ call.kind = "TitForTat"
    /\ call.history = <<Round("Scissors", "Scissors"), Round("Rock", "Paper")>>
    /\ call.my_pos = 0
    /\ ret = <<"Paper">>

\* C5: when every nextMove call succeeds, play returns exactly num_rounds
\* scores.
C5_ResultLength ==
    pc = "done" => Len(result) = num_rounds

C5_Witness ==
    /\ pc = "done"
    /\ num_rounds = 3
    /\ Len(result) = 3

\* C6: play with num_rounds = 0 returns an empty sequence and makes no
\* nextMove call.
C6_ZeroRounds ==
    num_rounds = 0 =>
        /\ calls = <<>>
        /\ pc \in {"test", "done"}
        /\ pc = "done" => result = <<>>

C6_Witness ==
    /\ pc = "done"
    /\ num_rounds = 0
    /\ p1 = "PlayerWrap"

\* C7: the score play returns for round r is score(move the first player
\* chose in round r, move the second chose in round r), in round order;
\* Rock against Scissors for 3 rounds gives <<-1, -1, -1>>.
C7_ResultIsScoreOfChosenMoves ==
    pc = "done" =>
        /\ Len(calls) = 2 * Len(result)
        /\ \A r \in 1..Len(result) :
              result[r] = score(calls[2 * r - 1].out, calls[2 * r].out)
        /\ (/\ num_rounds = 3
            /\ \A k \in 1..Len(calls) :
                  calls[k].out = IF calls[k].player = 1 THEN "Rock" ELSE "Scissors")
              => result = <<-1, -1, -1>>

C7_Witness ==
    /\ pc = "done"
    /\ num_rounds = 3
    /\ p1 = "PlayerWrap"
    /\ p2 = "PlayerWrap"
    /\ \A k \in 1..Len(calls) :
          calls[k].out = IF calls[k].player = 1 THEN "Rock" ELSE "Scissors"
    /\ result = <<-1, -1, -1>>

\* C8: the batch score returns a sequence as long as its argument whose
\* k-th element is the pairwise score of the k-th round.
C8_BatchIsPairwise ==
    (call.op = "scoreRounds" /\ ret # <<>>) =>
        /\ Len(ret[1]) = Len(call.rounds)
        /\ \A k \in 1..Len(call.rounds) :
              ret[1][k] = score(call.rounds[k].p1, call.rounds[k].p2)

C8_Witness ==
    /\ call.op = "scoreRounds"
    /\ call.rounds = <<Round("Rock", "Scissors"), Round("Rock", "Paper")>>
    /\ ret = << <<-1, 1>> >>

\* C9: a nextMove call with my_pos other than 0 and 1 never completes by
\* returning a move, for any player.
C9_InvalidSideFailsFast ==
    (call.op = "nextMove" /\ call.my_pos \notin {0, 1} /\ ret # <<>>) =>
        ret[1] \notin Move

\* C10: during play the history starts empty, its length is always the
\* number of rounds completed, and it is only ever extended at its end.
C10_LogAppendOnly ==
    /\ history = <<>>
    /\ [](Len(history) = i /\ i <= num_rounds)
    /\ [][IsPrefix(history, history') /\ Len(history') <= Len(history) + 1]_vars

C10_Witness ==
    /\ pc = "ask2"
    /\ p1 = "TitForTat"
    /\ Len(history) = 2
    /\ history[1] # history[2]

====
